---- MODULE Spec2Model ----
(***************************************************************************)
(* Model of the esp32_ota update engine: Blockdev / BufferedBlockdev /     *)
(* BlockDevWriter (blockdev_writer.py), OTA (writer.py) and                *)
(* force_rollback (status.py).                                             *)
(*                                                                         *)
(* The block device (esp32.Partition), the partition metadata service and  *)
(* hashlib.sha256 are collaborators of the code.  The device is a flat     *)
(* array of cells; every call the code makes on it, or on the platform,    *)
(* is appended to `log`.  SHA-256 is modelled as a collision-free          *)
(* streaming digest: its state is the byte string fed so far and the       *)
(* digest is that string with its length appended.                         *)
(***************************************************************************)
EXTENDS Integers, Sequences, FiniteSets, TLC

\* ------------------------------------------------------------- bounds
\* device.ioctl(IOCTL_BLOCK_SIZE) and device.ioctl(IOCTL_BLOCK_COUNT)
BlockSize == 3
BlockCount == 3
\* The number of write calls made on a Blockdev used alone
MaxRawCalls == 4
\* The number of OTA partitions a partition table may hold
MaxParts == 3
\* The number of OTA objects a program constructs
MaxSessions == 2
\* The number of calls made on a BlockDevWriter after its close
MaxReuse == 2

Capacity == BlockSize * BlockCount

\* The images a caller may stream: image k holds, at offset i, the byte
\* 100*k + i.  All bytes of an image differ, so a dropped, repeated or
\* moved byte always shows; the two images differ at every offset.
Sources == {1, 2}
ImageByte(k, i) == 100 * k + i
Image(k, n) == [i \in 1..n |-> ImageByte(k, i)]

\* The image whose digest a caller may announce: one full block and a tail.
RefImage == Image(1, BlockSize + 1)

\* Expected lengths a caller may give: 0 is "not given"; Capacity + 1 is
\* larger than the partition.
ExpectedLengths == {0, 1, BlockSize + 1, Capacity, Capacity + 1}

Min(a, b) == IF a < b THEN a ELSE b

\* F(e), with e evaluated once.
Let(e, F(_)) == CHOOSE r \in {F(x) : x \in {e}} : TRUE

\* ------------------------------------------------------------- digest
\* hashlib.sha256(): update() appends to the message, digest() is a
\* function of the whole message; hexlify() writes two hex digits a byte.
Sha256New == << >>
Sha256Update(h, bytes) == h \o bytes
Sha256Digest(h) == h \o <<Len(h)>>
RECURSIVE Hexlify(_)
Hexlify(bytes) ==
    IF bytes = << >> THEN << >>
    ELSE <<Head(bytes) \div 16, Head(bytes) % 16>> \o Hexlify(Tail(bytes))
HexDigest(h) == Hexlify(Sha256Digest(h))

\* ------------------------------------------------------------- state
VARIABLES
    pc,          \* "idle" | "open" | "failed" | "closed_ok" | "closed_err" |
                 \* "abandoned" | "rebooted"
    kind,        \* "none" | "OTA" | "BlockDevWriter" | "BufferedBlockdev" | "Blockdev"
    last,        \* the last call made: its name
    e_t,         \* the exception type handed to the last __exit__ ("None" or "Error")
    ret,         \* value returned by the last write / write_file made on a
                 \* Blockdev or BufferedBlockdev (-1: none)
    closeRet,    \* value returned by the last close: <<bytes_written, sha>>
    exc,         \* exception raised by the last call: [kind, block]
    has_next,    \* platform: get_next_update() finds a partition
    ota_capable, \* platform: mark_app_valid_cancel_rollback() succeeds
    boot,        \* platform: partition booted next
    flash,       \* device: the cells of the target partition
    log,         \* every platform and device call, in order
    written,     \* every byte handed to device.writeblocks, in order
    pos,         \* Blockdev.pos
    end,         \* Blockdev.end
    mv,          \* BufferedBlockdev._mv (<< >>: not allocated)
    bufp,        \* BufferedBlockdev._bufp
    sha,         \* BufferedBlockdev.sha (state of the running digest)
    sha_check,   \* BlockDevWriter.sha_check
    length,      \* BlockDevWriter._length
    verify,      \* BlockDevWriter._verify
    wsha,        \* BlockDevWriter.sha
    rsha,        \* read_sha of the last BlockDevWriter.verify, in hex
    misread,     \* the cell the device misread during the last close (0: none)
    reboot,      \* OTA._reboot
    src,         \* the image the caller streams
    input,       \* every byte accepted by write / write_file, in order
    arglen,      \* the length of the data given to the last write call
    resumed,     \* a write call was made after a call of flush
    ncalls,      \* the number of write calls made on a Blockdev
    table,       \* platform: the subtypes of the app partitions, in the order
                 \* Partition.find(TYPE_APP) gives them
    current,     \* status.current_ota: the subtype of the running partition
    boot_ota,    \* platform: the subtype of the partition booted next
    ctl,         \* the OTA objects of the program: [st, pos] each
    owner        \* the OTA object that wrote each block of the partition last

\* The platform and the caller's image
envVars == <<has_next, ota_capable, src>>
\* The partition table and the boot selection
bootVars == <<table, current, boot_ota>>
\* The OTA objects alive together
ctlVars == <<ctl, owner>>
\* The parameters of a session
cfgVars == <<sha_check, length, verify, reboot>>
\* The objects' fields, the device, and what the last call gave back
objVars == <<pos, end, flash, log, written, mv, bufp, sha, wsha, rsha,
             closeRet, boot, exc>>

vars == <<pc, kind, last, e_t, ret, envVars, bootVars, ctlVars, cfgVars,
          objVars, input, arglen, resumed, ncalls, misread>>

NoExc == [kind |-> "none", block |-> 0]
Exc(k, b) == [kind |-> k, block |-> b]

\* A call on the platform or the device: <<name, block, length, offset>>;
\* -1 where the call has no such argument.
Ev(op, block, n, off) == <<op, block, n, off>>

\* The partition names: the running one and the next-update one.
RunningPart == "ota_0"
NextPart == "ota_1"

\* ------------------------------------------------------------- device
\* esp32.Partition.writeblocks(block, buf[, offset]): stores buf at the
\* byte offset of the block.
DeviceWriteblocks(f, block, data, off) ==
    [i \in 1..Len(f) |->
        LET j == i - (block * BlockSize + off)
        IN IF j >= 1 /\ j <= Len(data) THEN data[j] ELSE f[i]]

\* ioctl(IOCTL_BLOCK_ERASE, block): the block reads 0xFF afterwards.
DeviceErase(f, block) ==
    [i \in 1..Len(f) |->
        IF (i - 1) \div BlockSize = block THEN 255 ELSE f[i]]

\* readblocks(block, buf[, offset]): n bytes from the block; a device that
\* does not store faithfully returns cell `fault` changed (0: none).
DeviceReadblocks(f, block, n, fault) ==
    [i \in 1..n |->
        LET c == block * BlockSize + i
        IN IF c = fault THEN (f[c] + 1) % 256 ELSE f[c]]

\* The buffered block device as one record.
Cur == [pos |-> pos, end |-> end, flash |-> flash, log |-> log,
        written |-> written, mv |-> mv, bufp |-> bufp, sha |-> sha,
        wsha |-> wsha, rsha |-> rsha, closeRet |-> << >>, boot |-> boot,
        exc |-> NoExc]

Raise(s, k, b) == [s EXCEPT !.exc = Exc(k, b)]
Failed(s) == s.exc.kind # "none"

\* ------------------------------------------------------------- Blockdev
\* Blockdev.write without the test of lines 33-35
Misaligned_Never(p) == FALSE
\* blockdev_writer.py:33-34
Misaligned(p) == p % BlockSize # 0
\* blockdev_writer.py:36
IsWholeBlocks(n) == n % BlockSize = 0
\* blockdev_writer.py:40
IsPartialBlock(n) == n < BlockSize

\* Blockdev.write: the whole-block branch
WriteWhole(s, block, data) ==
    [s EXCEPT !.flash = DeviceWriteblocks(@, block, data, 0),
              !.log = Append(@, Ev("writeblocks", block, Len(data), -1)),
              !.written = @ \o data,
              !.pos = @ + Len(data),
              !.end = s.pos + Len(data)]

\* The partial-block branch without the erase of line 41
WritePartial_NoErase(s, block, data) ==
    [s EXCEPT !.flash = DeviceWriteblocks(@, block, data, 0),
              !.log = Append(@, Ev("writeblocks", block, Len(data), 0)),
              !.written = @ \o data,
              !.pos = @ + Len(data),
              !.end = s.pos + Len(data)]

\* Blockdev.write: the partial-block branch; erase, then write at offset 0
WritePartial(s, block, data) ==
    [s EXCEPT !.flash = DeviceWriteblocks(DeviceErase(@, block), block, data, 0),
              !.log = @ \o <<Ev("erase", block, -1, -1),
                             Ev("writeblocks", block, Len(data), 0)>>,
              !.written = @ \o data,
              !.pos = @ + Len(data),
              !.end = s.pos + Len(data)]

\* Blockdev.write
BlockdevWrite(s, data) ==
    LET block == s.pos \div BlockSize
    IN IF Misaligned(s.pos) THEN Raise(s, "write_not_aligned", block)
       ELSE IF IsWholeBlocks(Len(data)) THEN WriteWhole(s, block, data)
       ELSE IF IsPartialBlock(Len(data)) THEN WritePartial(s, block, data)
       ELSE Raise(s, "not_multiple", block)

AlignmentErrors == {"write_not_aligned", "not_multiple"}

\* ------------------------------------------------------------- BufferedBlockdev
\* Blockdev.__init__: the two ioctl calls
BlockdevInit(s) ==
    [s EXCEPT !.log = @ \o <<Ev("ioctl_block_size", -1, -1, -1),
                             Ev("ioctl_block_count", -1, -1, -1)>>,
              !.pos = 0, !.end = 0]

\* blockdev_writer.py:80
BufferSize(size) == IF size = 0 THEN BlockSize ELSE size
\* blockdev_writer.py:81
BadBufferSize(size) == size < BlockSize \/ size % BlockSize # 0

\* BufferedBlockdev.__init__: a zeroed buffer, a fresh digest
BufferedInit(s, size) ==
    Let(BlockdevInit(s), LAMBDA b :
        IF BadBufferSize(BufferSize(size)) THEN Raise(b, "bad_buffer_size", 0)
        ELSE [b EXCEPT !.mv = [i \in 1..BufferSize(size) |-> 0],
                       !.bufp = 0,
                       !.sha = Sha256New])

\* BufferedBlockdev.flush without the test of line 88
Flush_Unguarded(s) ==
    Let(BlockdevWrite(s, SubSeq(s.mv, 1, s.bufp)), LAMBDA w :
        IF Failed(w) THEN w
        ELSE [w EXCEPT !.sha = Sha256Update(@, SubSeq(s.mv, 1, s.bufp)),
                       !.bufp = 0])

\* BufferedBlockdev.flush with the digest fed the whole buffer, not mv[:bufp]
Flush_HashBuffer(s) ==
    IF s.bufp = 0 THEN s
    ELSE Let(BlockdevWrite(s, SubSeq(s.mv, 1, s.bufp)), LAMBDA w :
            IF Failed(w) THEN w
            ELSE [w EXCEPT !.sha = Sha256Update(@, s.mv),
                           !.bufp = 0])

\* BufferedBlockdev.flush
Flush(s) ==
    IF s.bufp = 0 THEN s
    ELSE Let(BlockdevWrite(s, SubSeq(s.mv, 1, s.bufp)), LAMBDA w :
            IF Failed(w) THEN w
            ELSE [w EXCEPT !.sha = Sha256Update(@, SubSeq(s.mv, 1, s.bufp)),
                           !.bufp = 0])

\* The copy of line 100 taken from the start of the data, not from data_in
CopyIn_FromStart(s, data, data_in, ln) ==
    [s EXCEPT !.mv = [i \in 1..Len(s.mv) |->
                        IF i > s.bufp /\ i <= s.bufp + ln
                        THEN data[i - s.bufp] ELSE s.mv[i]],
              !.bufp = @ + ln]

\* One pass of the loop of BufferedBlockdev.write: copy what fits.
CopyIn(s, data, data_in, ln) ==
    [s EXCEPT !.mv = [i \in 1..Len(s.mv) |->
                        IF i > s.bufp /\ i <= s.bufp + ln
                        THEN data[data_in + (i - s.bufp)] ELSE s.mv[i]],
              !.bufp = @ + ln]

\* blockdev_writer.py:102
BufferFull(s) == s.bufp = Len(s.mv)

\* The rest of a pass: flush when the buffer is full.
FlushIfFull(c) == IF BufferFull(c) THEN Flush(c) ELSE c

RECURSIVE WriteLoop(_, _, _)
WriteLoop(s, data, data_in) ==
    IF Failed(s) \/ data_in >= Len(data) THEN s
    ELSE LET ln == Min(Len(s.mv) - s.bufp, Len(data) - data_in)
         IN Let(CopyIn(s, data, data_in, ln), LAMBDA c :
            Let(FlushIfFull(c), LAMBDA f :
                WriteLoop(f, data, data_in + ln)))

\* BufferedBlockdev.write
BufferedWrite(s, data) == WriteLoop(s, data, 0)

\* BufferedBlockdev.write_file: f.readinto() hands over at most `maxread`
\* bytes a call, and 0 when the source is exhausted.
RECURSIVE WriteFileLoop(_, _, _, _)
WriteFileLoop(s, data, done, maxread) ==
    IF Failed(s) THEN s
    ELSE LET n == Min(Min(Len(s.mv) - s.bufp, Len(data) - done), maxread)
         IN IF n = 0 THEN s
            ELSE Let(CopyIn(s, data, done, n), LAMBDA c :
                 Let(FlushIfFull(c), LAMBDA f :
                     WriteFileLoop(f, data, done + n, maxread)))

BufferedWriteFile(s, data, maxread) == WriteFileLoop(s, data, 0, maxread)

\* ------------------------------------------------------------- reading back
\* Blockdev.seek
Seek(s, offset, whence) ==
    [s EXCEPT !.pos = <<0, s.pos, s.end>>[whence + 1] + offset]

\* Blockdev.readinto with the whole buffer read at lines 65-67 too, past
\* the end of what was written
Readinto_WholeBuffer(s, buflen, fault) ==
    LET block == s.pos \div BlockSize
        remaining == s.end - s.pos
        ln == Min(buflen, remaining)
        none == [s |-> s, n |-> 0, data |-> << >>]
    IN IF s.pos = s.end THEN none
       ELSE IF Misaligned(s.pos)
            THEN [none EXCEPT !.s = Raise(s, "read_not_aligned", block)]
       ELSE IF buflen % BlockSize # 0 /\ buflen > BlockSize
            THEN [none EXCEPT !.s = Raise(s, "not_multiple", block)]
       ELSE [s |-> [s EXCEPT !.log = Append(@, Ev("readblocks", block, buflen, -1)),
                             !.pos = @ + ln],
             n |-> ln,
             data |-> DeviceReadblocks(s.flash, block, ln, fault)]

\* Blockdev.readinto on a buffer of buflen bytes: the record read, with the
\* bytes it put in the buffer (data) and the count it returns (n).
Readinto(s, buflen, fault) ==
    LET block == s.pos \div BlockSize
        remaining == s.end - s.pos
        none == [s |-> s, n |-> 0, data |-> << >>]
    IN IF s.pos = s.end THEN none
       ELSE IF Misaligned(s.pos)
            THEN [none EXCEPT !.s = Raise(s, "read_not_aligned", block)]
       ELSE IF buflen % BlockSize # 0 /\ buflen > BlockSize
            THEN [none EXCEPT !.s = Raise(s, "not_multiple", block)]
       ELSE IF buflen <= remaining
            THEN [s |-> [s EXCEPT !.log = Append(@, Ev("readblocks", block, buflen, -1)),
                                  !.pos = @ + buflen],
                  n |-> buflen,
                  data |-> DeviceReadblocks(s.flash, block, buflen, fault)]
       ELSE [s |-> [s EXCEPT !.log = Append(@, Ev("readblocks", block, remaining, 0)),
                             !.pos = @ + remaining],
             n |-> remaining,
             data |-> DeviceReadblocks(s.flash, block, remaining, fault)]

\* The read loop of BlockDevWriter.verify: the record reached and the
\* state of read_sha.
RECURSIVE ReadLoop(_, _, _)
ReadLoop(s, read_sha, fault) ==
    Let(Readinto(s, BlockSize, fault), LAMBDA r :
        IF Failed(r.s) \/ r.n <= 0 THEN [s |-> r.s, read_sha |-> read_sha]
        ELSE Let(Sha256Update(read_sha, r.data), LAMBDA h :
                 ReadLoop(r.s, h, fault)))

\* blockdev_writer.py:189
VerifyMismatch(read_hex, write_hex) == read_hex # write_hex

\* BlockDevWriter.verify without the seek(0) of line 180
Verify_NoSeek(s, fault) ==
    Let(ReadLoop(s, Sha256New, fault), LAMBDA r :
        IF Failed(r.s) THEN r.s
        ELSE Let([r.s EXCEPT !.rsha = HexDigest(r.read_sha)], LAMBDA h :
                 IF VerifyMismatch(h.rsha, s.wsha)
                 THEN Raise(h, "sha_verify_failed", 0)
                 ELSE h))

\* BlockDevWriter.verify
Verify(s, fault) ==
    Let(Seek(s, 0, 0), LAMBDA z :
    Let(ReadLoop(z, Sha256New, fault), LAMBDA r :
        IF Failed(r.s) THEN r.s
        ELSE Let([r.s EXCEPT !.rsha = HexDigest(r.read_sha)], LAMBDA h :
                 IF VerifyMismatch(h.rsha, s.wsha)
                 THEN Raise(h, "sha_verify_failed", 0)
                 ELSE h)))

\* ------------------------------------------------------------- BlockDevWriter
\* blockdev_writer.py:137
LengthTooLarge(len) == len > BlockSize * BlockCount
\* The test of line 166 failing only a payload that is too short
LengthMismatch_OnlyShort(len, bytes_written) == len # 0 /\ bytes_written < len
\* blockdev_writer.py:166
LengthMismatch(len, bytes_written) == len # 0 /\ len # bytes_written
\* blockdev_writer.py:168
ShaMismatch(check, hex) == check # << >> /\ check # hex

\* BlockDevWriter.close with the digest compared before the length
CloseChecks_ShaFirst(s, len, check, vfy, fault) ==
    Let([s EXCEPT !.wsha = HexDigest(s.sha)], LAMBDA h :
        LET bytes_written == h.end
        IN IF ShaMismatch(check, h.wsha) THEN Raise(h, "sha_mismatch", 0)
           ELSE IF LengthMismatch(len, bytes_written)
           THEN Raise(h, "length_mismatch", 0)
           ELSE Let(IF vfy THEN Verify(h, fault) ELSE h, LAMBDA v :
                    IF Failed(v) THEN v
                    ELSE [Seek(v, 0, 0) EXCEPT
                            !.closeRet = <<bytes_written, h.wsha>>]))

\* BlockDevWriter.close, after the flush
CloseChecks(s, len, check, vfy, fault) ==
    Let([s EXCEPT !.wsha = HexDigest(s.sha)], LAMBDA h :
        LET bytes_written == h.end
        IN IF LengthMismatch(len, bytes_written)
           THEN Raise(h, "length_mismatch", 0)
           ELSE IF ShaMismatch(check, h.wsha) THEN Raise(h, "sha_mismatch", 0)
           ELSE Let(IF vfy THEN Verify(h, fault) ELSE h, LAMBDA v :
                    IF Failed(v) THEN v
                    ELSE [Seek(v, 0, 0) EXCEPT
                            !.closeRet = <<bytes_written, h.wsha>>]))

\* BlockDevWriter.close
WriterClose(s, len, check, vfy, fault) ==
    Let(Flush(s), LAMBDA f :
        IF Failed(f) THEN f ELSE CloseChecks(f, len, check, vfy, fault))

\* ------------------------------------------------------------- OTA
\* Partition.set_boot(): the bootloader validates the image (valid) and
\* only then moves the boot pointer.
SetBoot(s, valid) ==
    LET c == [s EXCEPT !.log = Append(@, Ev("set_boot", -1, -1, -1))]
    IN IF valid THEN [c EXCEPT !.boot = NextPart]
       ELSE Raise(c, "ota_validate_failed", 0)

\* OTA.close, lines 63-70: the countdown (ctrl-C cancels it) and the reset
Reboot(s, cancel) ==
    IF cancel THEN Raise(s, "KeyboardInterrupt", 0)
    ELSE [s EXCEPT !.log = Append(@, Ev("reset", -1, -1, -1))]

\* OTA.close with the writer's exception swallowed: the boot partition is
\* set whatever close() did.
OTAClose_Unchecked(s, len, check, vfy, rbt, fault, valid, cancel) ==
    Let(WriterClose(s, len, check, vfy, fault), LAMBDA w :
    Let(SetBoot([w EXCEPT !.exc = NoExc], valid), LAMBDA b :
        IF Failed(b) THEN [b EXCEPT !.closeRet = << >>]
        ELSE IF rbt THEN [Reboot(b, cancel) EXCEPT !.closeRet = << >>]
        ELSE b))

\* OTA.close
OTAClose(s, len, check, vfy, rbt, fault, valid, cancel) ==
    Let(WriterClose(s, len, check, vfy, fault), LAMBDA w :
        IF Failed(w) THEN w
        ELSE Let(SetBoot(w, valid), LAMBDA b :
                 IF Failed(b) THEN [b EXCEPT !.closeRet = << >>]
                 ELSE IF rbt THEN [Reboot(b, cancel) EXCEPT !.closeRet = << >>]
                 ELSE b))

\* OTA.__init__, up to the construction of the writer: the partition
\* lookup, info() and stop_rollback().
OTAInitPlatform(s, found, capable) ==
    LET g == [s EXCEPT !.log = Append(@, Ev("get_next_update", -1, -1, -1))]
        i == [g EXCEPT !.log = Append(@, Ev("info", -1, -1, -1))]
        m == [i EXCEPT !.log = Append(@, Ev("mark_app_valid", -1, -1, -1))]
    IN IF ~found THEN Raise(g, "ENOENT", 0)
       ELSE IF ~capable THEN Raise(m, "OTA_UNSUPPORTED", 0)
       ELSE m

\* BlockDevWriter.__init__
WriterInit(s, len) ==
    Let([BufferedInit(s, 0) EXCEPT !.wsha = << >>], LAMBDA b :
        IF LengthTooLarge(len) THEN Raise(b, "length_gt_partition", 0) ELSE b)

\* OTA.__init__ with the writer constructed before the platform calls
OTAInit_WriterFirst(s, len, found, capable) ==
    Let(WriterInit(s, len), LAMBDA w :
        IF Failed(w) THEN w ELSE OTAInitPlatform(w, found, capable))

\* OTA.__init__
OTAInit(s, len, found, capable) ==
    Let(OTAInitPlatform(s, found, capable), LAMBDA p :
        IF Failed(p) THEN p ELSE WriterInit(p, len))

\* ------------------------------------------------------------- scopes
\* OTA.__exit__ closing whatever e_t is
OTAExit_AlwaysClose(s, et, len, check, vfy, rbt, fault, valid, cancel) ==
    OTAClose(s, len, check, vfy, rbt, fault, valid, cancel)

\* OTA.__exit__: et is the exception type it is given ("None": none); it
\* returns None, so a pending exception goes on to the caller.
OTAExit(s, et, len, check, vfy, rbt, fault, valid, cancel) ==
    IF et = "None" THEN OTAClose(s, len, check, vfy, rbt, fault, valid, cancel)
    ELSE Raise(s, et, 0)

\* BlockDevWriter.__exit__
WriterExit(s, et, len, check, vfy, fault) ==
    IF et = "None" THEN WriterClose(s, len, check, vfy, fault)
    ELSE Raise(s, et, 0)

\* blockdev_writer.py:105
WriteReturn(data) == Len(data)
\* blockdev_writer.py:114
WriteFileReturn(start, s) == s.pos - start

\* ------------------------------------------------------------- the program
\* The digests a caller may announce: "" is "not given".
ExpectedShas == {<< >>, HexDigest(RefImage)}

\* The next k bytes of the image the caller streams.
NextBytes(k) == [i \in 1..k |-> ImageByte(src, Len(input) + i)]

\* status.py:18-19: the subtypes of the OTA app partitions
OTA_MIN == 16
OTA_MAX == 32
\* status.py:46: the subtype of the factory app partition
Factory == 0

\* The OTA objects the program may hold at once
Ctls == 1..MaxSessions
\* No OTA object constructed yet
NoSessions == [c \in Ctls |-> [st |-> "none", pos |-> 0]]

Store(s) ==
    /\ pos' = s.pos /\ end' = s.end /\ flash' = s.flash /\ log' = s.log
    /\ written' = s.written /\ mv' = s.mv /\ bufp' = s.bufp /\ sha' = s.sha
    /\ wsha' = s.wsha /\ rsha' = s.rsha /\ closeRet' = s.closeRet
    /\ boot' = s.boot
    /\ exc' = s.exc

Init ==
    /\ pc = "idle" /\ kind = "none" /\ last = "none" /\ e_t = "None"
    /\ ret = -1 /\ closeRet = << >> /\ exc = NoExc
    /\ has_next \in BOOLEAN /\ ota_capable \in BOOLEAN
    /\ boot = RunningPart
    /\ flash = [i \in 1..Capacity |-> 170]
    /\ log = << >> /\ written = << >>
    /\ pos = 0 /\ end = 0 /\ mv = << >> /\ bufp = 0 /\ sha = Sha256New
    /\ sha_check = << >> /\ length = 0 /\ verify = FALSE /\ wsha = << >>
    /\ rsha = << >> /\ misread = 0
    /\ reboot = FALSE
    /\ src \in Sources
    /\ input = << >> /\ arglen = 0 /\ resumed = FALSE /\ ncalls = 0
    /\ table = (IF has_next THEN <<OTA_MIN, OTA_MIN + 1>> ELSE <<Factory>>)
    /\ current = (IF has_next THEN OTA_MIN ELSE Factory)
    /\ boot_ota = current
    /\ ctl = NoSessions
    /\ owner = [b \in 1..BlockCount |-> 0]

\* ota = OTA(sha, length, verify, verbose, reboot)
NewOTA ==
    \E sha_ \in ExpectedShas, len_ \in ExpectedLengths,
       vfy_ \in BOOLEAN, rbt_ \in BOOLEAN :
        /\ pc = "idle"
        /\ \E s \in {OTAInit(Cur, len_, has_next, ota_capable)} :
           LET built == s.mv # << >>
           IN /\ Store(s)
              /\ pc' = IF Failed(s) THEN "failed" ELSE "open"
              /\ sha_check' = IF built THEN sha_ ELSE sha_check
              /\ length' = IF built THEN len_ ELSE length
              /\ verify' = IF built THEN vfy_ ELSE verify
        /\ reboot' = rbt_
        /\ kind' = "OTA" /\ last' = "OTA"
        /\ UNCHANGED <<e_t, ret, envVars, bootVars, ctlVars, input, arglen, resumed, ncalls, misread>>

\* writer = BlockDevWriter(device, sha, length, verify, verbose)
NewBlockDevWriter ==
    \E sha_ \in ExpectedShas, len_ \in ExpectedLengths, vfy_ \in BOOLEAN :
        /\ pc = "idle"
        /\ \E s \in {WriterInit(Cur, len_)} :
              /\ Store(s)
              /\ pc' = IF Failed(s) THEN "failed" ELSE "open"
        /\ sha_check' = sha_ /\ length' = len_ /\ verify' = vfy_
        /\ kind' = "BlockDevWriter" /\ last' = "BlockDevWriter"
        /\ UNCHANGED <<e_t, ret, envVars, bootVars, ctlVars, reboot, input, arglen, resumed, ncalls, misread>>

Session == kind \in {"OTA", "BlockDevWriter"}

\* ota.write(data) / writer.write(data): both hand the data, and the value
\* returned, through to BufferedBlockdev.write (see BufWrite)
Write ==
    \E k \in 0..(Capacity - Len(input)) :
        /\ pc = "open" /\ Session
        /\ \E data \in {NextBytes(k)} :
           \E s \in {BufferedWrite(Cur, data)} :
              /\ Store(s)
              /\ input' = input \o data
        /\ last' = "write"
        /\ UNCHANGED <<pc, kind, e_t, ret, envVars, bootVars, ctlVars, cfgVars, arglen, resumed, ncalls, misread>>

\* ota.write_file(f) / writer.write_file(f): f holds k more bytes and
\* hands over at most maxread of them a read (see BufWriteFile)
WriteFile ==
    \E k \in 0..(Capacity - Len(input)), maxread \in 1..BlockSize :
        /\ pc = "open" /\ Session
        /\ \E data \in {NextBytes(k)} :
           \E s \in {BufferedWriteFile(Cur, data, maxread)} :
              /\ Store(s)
              /\ input' = input \o data
        /\ last' = "write_file"
        /\ UNCHANGED <<pc, kind, e_t, ret, envVars, bootVars, ctlVars, cfgVars, arglen, resumed, ncalls, misread>>

\* What the platform does during OTA.close: the bootloader rejects the
\* image, or accepts it and the countdown runs out or is cancelled.
CloseEnvs == {[valid |-> FALSE, cancel |-> FALSE],
              [valid |-> TRUE, cancel |-> FALSE],
              [valid |-> TRUE, cancel |-> TRUE]}

\* Only a close that reads back meets a read fault (0: none): in the first
\* cell, at a block boundary, in the last cell written, or in the cell after
\* it.  Only OTA.close calls the platform.
Faults ==
    IF verify
    THEN {0} \cup ({1, BlockSize, BlockSize + 1, end + bufp, end + bufp + 1}
                    \cap 1..Capacity)
    ELSE {0}
Envs == IF kind = "OTA" THEN CloseEnvs ELSE {[valid |-> TRUE, cancel |-> FALSE]}

\* Where a session is after close() or __exit__() gave s.
After(s, et) ==
    IF et # "None" THEN "abandoned"
    ELSE IF s.log # << >> /\ s.log[Len(s.log)][1] = "reset" THEN "rebooted"
    ELSE IF Failed(s) THEN "closed_err"
    ELSE "closed_ok"

\* ota.close() / writer.close()
Close ==
    \E cell \in Faults, env \in Envs :
        /\ pc = "open" /\ Session
        /\ \E s \in {IF kind = "OTA"
                     THEN OTAClose(Cur, length, sha_check, verify, reboot,
                                   cell, env.valid, env.cancel)
                     ELSE WriterClose(Cur, length, sha_check, verify, cell)} :
              /\ Store(s)
              /\ pc' = After(s, "None")
        /\ last' = "close" /\ misread' = cell
        /\ UNCHANGED <<kind, e_t, ret, envVars, bootVars, ctlVars, cfgVars, input, arglen,
                       resumed, ncalls>>

\* The end of a `with ota:` / `with writer:` block: __exit__(et, ...)
Exit ==
    \E et \in {"None", "Error"}, cell \in Faults, env \in Envs :
        /\ pc = "open" /\ Session
        /\ \E s \in {IF kind = "OTA"
                     THEN OTAExit(Cur, et, length, sha_check, verify, reboot,
                                  cell, env.valid, env.cancel)
                     ELSE WriterExit(Cur, et, length, sha_check, verify, cell)} :
              /\ Store(s)
              /\ pc' = After(s, et)
        /\ last' = "__exit__" /\ e_t' = et
        /\ misread' = IF et = "None" THEN cell ELSE 0
        /\ UNCHANGED <<kind, ret, envVars, bootVars, ctlVars, cfgVars, input, arglen, resumed,
                       ncalls>>

Next ==
    \/ NewOTA
    \/ NewBlockDevWriter
    \/ Write
    \/ WriteFile
    \/ Close
    \/ Exit

Spec == Init /\ [][Next]_vars

\* ------------------------------------------------------------- BufferedBlockdev alone
\* The buffer sizes a caller may ask for: 0 is "one block".
BufferSizes == 0..(2 * BlockSize)

\* dev = BufferedBlockdev(device, size)
NewBufferedBlockdev ==
    \E size \in BufferSizes :
        /\ pc = "idle"
        /\ \E s \in {BufferedInit(Cur, size)} :
              /\ Store(s)
              /\ pc' = IF Failed(s) THEN "failed" ELSE "open"
        /\ kind' = "BufferedBlockdev" /\ last' = "BufferedBlockdev"
        /\ UNCHANGED <<e_t, ret, envVars, bootVars, ctlVars, cfgVars, input, arglen, resumed, ncalls, misread>>

\* dev.write(data)
BufWrite ==
    \E k \in 0..(Capacity - Len(input)) :
        /\ pc = "open" /\ kind = "BufferedBlockdev"
        /\ \E data \in {NextBytes(k)} :
           \E s \in {BufferedWrite(Cur, data)} :
              /\ Store(s)
              /\ ret' = IF Failed(s) THEN -1 ELSE WriteReturn(data)
              /\ input' = IF Failed(s) THEN input ELSE input \o data
        /\ last' = "write" /\ arglen' = k
        /\ resumed' = (resumed \/ last = "flush")
        /\ UNCHANGED <<pc, kind, e_t, envVars, bootVars, ctlVars, cfgVars, ncalls, misread>>

\* dev.write_file(f); on a buffer left full by a call that raised, the
\* first readinto is given an empty slice, returns 0 and ends the loop
BufWriteFile ==
    \E k \in 0..(Capacity - Len(input)), maxread \in 1..BlockSize :
        /\ pc = "open" /\ kind = "BufferedBlockdev"
        /\ \E data \in {NextBytes(k)} :
           \E s \in {BufferedWriteFile(Cur, data, maxread)} :
              /\ Store(s)
              /\ ret' = IF Failed(s) THEN -1 ELSE WriteFileReturn(pos, s)
              /\ input' = IF Failed(s) \/ BufferFull(Cur) THEN input
                          ELSE input \o data
        /\ last' = "write_file" /\ arglen' = k
        /\ resumed' = (resumed \/ last = "flush")
        /\ UNCHANGED <<pc, kind, e_t, envVars, bootVars, ctlVars, cfgVars, ncalls, misread>>

\* dev.flush()
BufFlush ==
    /\ pc = "open" /\ kind = "BufferedBlockdev"
    /\ \E s \in {Flush(Cur)} : Store(s)
    /\ last' = "flush"
    /\ UNCHANGED <<pc, kind, e_t, ret, envVars, bootVars, ctlVars, cfgVars, input, arglen, resumed, ncalls, misread>>

NextBuf ==
    \/ NewBufferedBlockdev
    \/ BufWrite
    \/ BufWriteFile
    \/ BufFlush

SpecBuf == Init /\ [][NextBuf]_vars

\* ------------------------------------------------------------- Blockdev alone
\* The lengths of the raw writes: none, partial blocks, whole blocks, and
\* more than a block that is not whole blocks.
RawLengths == 0..(2 * BlockSize + 1)

\* dev = Blockdev(device)
NewBlockdev ==
    /\ pc = "idle"
    /\ \E s \in {BlockdevInit(Cur)} : Store(s)
    /\ pc' = "open"
    /\ kind' = "Blockdev" /\ last' = "Blockdev"
    /\ UNCHANGED <<e_t, ret, envVars, bootVars, ctlVars, cfgVars, input, arglen, resumed, ncalls, misread>>

\* dev.write(data); the caller stays within the partition
RawWrite ==
    \E k \in RawLengths :
        /\ pc = "open" /\ kind = "Blockdev"
        /\ ncalls < MaxRawCalls
        /\ ncalls' = ncalls + 1
        /\ \E data \in {NextBytes(k)} :
           \E s \in {BlockdevWrite(Cur, data)} :
              /\ s.pos <= Capacity
              /\ Store(s)
              /\ ret' = IF Failed(s) THEN -1 ELSE Len(data)
              /\ input' = IF Failed(s) THEN input ELSE input \o data
        /\ last' = "write" /\ arglen' = k
        /\ UNCHANGED <<pc, kind, e_t, envVars, bootVars, ctlVars, cfgVars, resumed, misread>>

NextDev ==
    \/ NewBlockdev
    \/ RawWrite

SpecDev == Init /\ [][NextDev]_vars

\* ------------------------------------------------------------- OTA objects alive together
\* The variables that belong to one OTA object alone, or to no object here
oneVars == <<pc, last, e_t, ret, envVars, bootVars, cfgVars, pos, end, flash,
             log, written, mv, bufp, sha, wsha, rsha, closeRet, exc, input,
             arglen, resumed, ncalls, misread>>

\* c = OTA(): writer.py:28-45 looks the partition up, marks the running
\* image valid and constructs a BlockDevWriter at position 0; it keeps no
\* record of the OTA objects made before, and within a boot the lookup
\* gives every one of them the same partition.
SessionOpen(c) ==
    /\ pc = "idle" /\ ctl[c].st = "none"
    /\ \E s \in {OTAInit(Cur, 0, has_next, ota_capable)} :
          ctl' = [ctl EXCEPT ![c] = [st |-> IF Failed(s) THEN "failed"
                                            ELSE "open",
                                     pos |-> s.pos]]
    /\ kind' = "OTAs"
    /\ UNCHANGED <<oneVars, owner, boot>>

\* c.write(one block of data): the buffer fills and is flushed at the
\* block of c's own position.
SessionWrite(c) ==
    /\ ctl[c].st = "open" /\ ctl[c].pos + BlockSize <= Capacity
    /\ owner' = [owner EXCEPT ![ctl[c].pos \div BlockSize + 1] = c]
    /\ ctl' = [ctl EXCEPT ![c].pos = @ + BlockSize]
    /\ UNCHANGED <<oneVars, kind, boot>>

\* c.close() with nothing expected and verify off: set_boot, seek(0)
SessionClose(c) ==
    /\ ctl[c].st = "open"
    /\ ctl' = [ctl EXCEPT ![c] = [st |-> "closed", pos |-> 0]]
    /\ boot' = NextPart
    /\ UNCHANGED <<oneVars, kind, owner>>

NextSessions ==
    \E c \in Ctls :
        \/ SessionOpen(c)
        \/ SessionWrite(c)
        \/ SessionClose(c)

SpecSessions == Init /\ [][NextSessions]_vars

\* ------------------------------------------------------------- force_rollback
\* The subtypes an app partition may have: factory, ota_0 .. and, past the
\* OTA range, the test app (OTA_MAX).
AppSubtypes == {Factory} \cup (OTA_MIN..(OTA_MIN + MaxParts - 1)) \cup {OTA_MAX}

RECURSIVE Arrangements(_)
\* The sequences that hold each element of S once: the orders in which
\* Partition.find may give the partitions S.
Arrangements(S) ==
    IF S = {} THEN {<< >>}
    ELSE UNION {{<<x>> \o a : a \in Arrangements(S \ {x})} : x \in S}

\* The app partition tables: at least the running partition is in them.
Tables == UNION {Arrangements(S) : S \in SUBSET AppSubtypes \ {{}}}

\* status.py:63
IsOta(subtype) == OTA_MIN <= subtype /\ subtype < OTA_MAX
\* status.py:66: the sort key
BySubtype(a, b) == a < b

\* ota_partitions() with the sort of line 66 left out
OtaPartitions_Unsorted(found) == SelectSeq(found, IsOta)

\* ota_partitions(): the OTA partitions among those found, by subtype
OtaPartitions(found) == SortSeq(SelectSeq(found, IsOta), BySubtype)

\* partitions[k] as Python indexes a list: from the end when k < 0
PyIndex(partitions, k) ==
    IF k < 0 THEN partitions[Len(partitions) + k + 1] ELSE partitions[k + 1]

\* status.py:101-102: the indexes i the loop may return at
Matches(partitions, cur) == {i \in 0..(Len(partitions) - 1) : partitions[i + 1] = cur}

\* Partition.set_boot() of the partition with the subtype given
SetBootOf(s, subtype, valid) ==
    LET c == [s EXCEPT !.log = Append(@, Ev("set_boot", subtype, -1, -1))]
    IN IF valid THEN [c EXCEPT !.boot = subtype]
       ELSE Raise(c, "ota_validate_failed", 0)

\* force_rollback(reboot) on the record [log, boot, exc]
ForceRollback(s, found, cur, rbt, valid, cancel) ==
    LET partitions == OtaPartitions(found)
        hits == Matches(partitions, cur)
    IN IF hits = {} THEN Raise(s, "OTA_UNSUPPORTED", 0)
       ELSE LET i == CHOOSE h \in hits : \A g \in hits : h <= g
            IN Let(SetBootOf(s, PyIndex(partitions, i - 1), valid), LAMBDA b :
                   IF Failed(b) \/ ~rbt THEN b ELSE Reboot(b, cancel))

\* The state at boot: which partition runs, nothing called yet.
InitRollback ==
    /\ pc = "idle" /\ kind = "none" /\ last = "none" /\ e_t = "None"
    /\ ret = -1 /\ closeRet = << >> /\ exc = NoExc
    /\ table \in Tables
    /\ \E i \in 1..Len(table) : current = table[i]
    /\ boot_ota = current
    /\ has_next = (\E i \in 1..Len(table) : IsOta(table[i]))
    /\ ota_capable = has_next
    /\ boot = RunningPart
    /\ flash = [i \in 1..Capacity |-> 170]
    /\ log = << >> /\ written = << >>
    /\ pos = 0 /\ end = 0 /\ mv = << >> /\ bufp = 0 /\ sha = Sha256New
    /\ sha_check = << >> /\ length = 0 /\ verify = FALSE /\ wsha = << >>
    /\ rsha = << >> /\ misread = 0
    /\ reboot = FALSE
    /\ src = 1
    /\ input = << >> /\ arglen = 0 /\ resumed = FALSE /\ ncalls = 0
    /\ ctl = NoSessions
    /\ owner = [b \in 1..BlockCount |-> 0]

\* force_rollback(reboot): once in a boot
CallForceRollback ==
    \E rbt \in BOOLEAN, env \in CloseEnvs :
        /\ pc = "idle"
        /\ \E s \in {ForceRollback([log |-> log, boot |-> boot_ota, exc |-> NoExc],
                                   table, current, rbt, env.valid, env.cancel)} :
              /\ log' = s.log /\ boot_ota' = s.boot /\ exc' = s.exc
              /\ pc' = After(s, "None")
        /\ reboot' = rbt
        /\ kind' = "force_rollback" /\ last' = "force_rollback"
        /\ UNCHANGED <<e_t, ret, envVars, table, current, ctlVars, sha_check,
                       length, verify, pos, end, flash, written, mv, bufp, sha,
                       wsha, rsha, closeRet, boot, input, arglen, resumed,
                       ncalls, misread>>

\* machine.reset(), or a reset by hand: the bootloader starts the partition
\* selected and the program starts afresh.
Restart ==
    /\ pc # "idle"
    /\ current' = boot_ota
    /\ pc' = "idle" /\ kind' = "none" /\ last' = "none"
    /\ log' = << >> /\ exc' = NoExc /\ reboot' = FALSE
    /\ UNCHANGED <<e_t, ret, envVars, table, boot_ota, ctlVars, sha_check,
                   length, verify, pos, end, flash, written, mv, bufp, sha,
                   wsha, rsha, closeRet, boot, input, arglen, resumed,
                   ncalls, misread>>

NextRollback ==
    \/ CallForceRollback
    \/ Restart

SpecRollback == InitRollback /\ [][NextRollback]_vars

\* ------------------------------------------------------------- a writer used after close
\* Nothing in BlockDevWriter records that close() was called: its methods
\* and those of its device go on working on the same fields.
\* The lengths of the data written after a close: none, a tail, a block.
ReuseLengths == {0, 1, BlockSize}

CanReuse ==
    /\ kind = "BlockDevWriter" /\ pc \in {"closed_ok", "closed_err", "reused"}
    /\ ncalls < MaxReuse

\* What a call made after close leaves alone
reuseRest == <<kind, e_t, ret, envVars, bootVars, ctlVars, cfgVars, arglen,
               resumed, misread>>

\* writer.write(data) after close; the caller stays within the partition
WriteAfterClose ==
    \E k \in ReuseLengths :
        /\ CanReuse
        /\ \E data \in {NextBytes(k)} :
           \E s \in {BufferedWrite(Cur, data)} :
              /\ s.pos + s.bufp <= Capacity
              /\ Store(s)
              /\ input' = IF Failed(s) THEN input ELSE input \o data
        /\ pc' = "reused" /\ last' = "write" /\ ncalls' = ncalls + 1
        /\ UNCHANGED reuseRest

\* writer.write_file(f) after close, f giving a block a read
WriteFileAfterClose ==
    \E k \in ReuseLengths :
        /\ CanReuse
        /\ \E data \in {NextBytes(k)} :
           \E s \in {BufferedWriteFile(Cur, data, BlockSize)} :
              /\ s.pos + s.bufp <= Capacity
              /\ Store(s)
              /\ input' = IF Failed(s) THEN input ELSE input \o data
        /\ pc' = "reused" /\ last' = "write_file" /\ ncalls' = ncalls + 1
        /\ UNCHANGED reuseRest

\* writer.device.flush() after close
FlushAfterClose ==
    /\ CanReuse
    /\ \E s \in {Flush(Cur)} : Store(s)
    /\ pc' = "reused" /\ last' = "flush" /\ ncalls' = ncalls + 1
    /\ UNCHANGED <<reuseRest, input>>

\* writer.close() again
CloseAfterClose ==
    /\ CanReuse
    /\ \E s \in {WriterClose(Cur, length, sha_check, verify, 0)} : Store(s)
    /\ pc' = "reused" /\ last' = "close" /\ ncalls' = ncalls + 1
    /\ UNCHANGED <<reuseRest, input>>

\* writer.verify(), which "must be called from, or after, close()"
VerifyAfterClose ==
    /\ CanReuse
    /\ \E s \in {Verify(Cur, 0)} : Store(s)
    /\ pc' = "reused" /\ last' = "verify" /\ ncalls' = ncalls + 1
    /\ UNCHANGED <<reuseRest, input>>

NextReuse ==
    \/ NewBlockDevWriter
    \/ Write
    \/ WriteFile
    \/ Close
    \/ WriteAfterClose
    \/ WriteFileAfterClose
    \/ FlushAfterClose
    \/ CloseAfterClose
    \/ VerifyAfterClose

SpecReuse == Init /\ [][NextReuse]_vars

\* ------------------------------------------------------------- properties
Logged(op) == \E i \in 1..Len(log) : log[i][1] = op
Closed == pc \in {"closed_ok", "closed_err", "rebooted"}
DeviceOps == {"ioctl_block_size", "ioctl_block_count", "writeblocks",
              "erase", "readblocks"}
DataOps == {"writeblocks", "erase", "readblocks"}
CloseFailures == {"length_mismatch", "sha_mismatch", "sha_verify_failed",
                  "ota_validate_failed"}

\* C1: set_boot is called only after BlockDevWriter.close has succeeded:
\* the tail flushed, the length and the digest as expected, the read-back
\* digest equal to the written one when verify is on, and every device
\* call made.  When close fails on the length, the digest or the
\* read-back, or set_boot itself fails, the boot partition is the one it
\* was and the platform is not reset, whatever reboot is; a reset follows
\* only a set_boot that succeeded.
C1_CommitOnlyAfterSuccessfulClose ==
    /\ Logged("set_boot") =>
          /\ kind = "OTA" /\ Closed
          /\ written = input
          /\ length = 0 \/ length = Len(input)
          /\ sha_check = << >> \/ sha_check = HexDigest(input)
          /\ verify => rsha = HexDigest(input) /\ misread \notin 1..Len(input)
          /\ \A i \in 1..Len(log) : \A j \in 1..Len(log) :
                log[i][1] = "set_boot" /\ log[j][1] \in DataOps => j < i
    /\ exc.kind \in CloseFailures => boot = RunningPart /\ ~Logged("reset")
    /\ boot # RunningPart => Logged("set_boot") /\ exc.kind \notin CloseFailures
    /\ Logged("reset") => boot = NextPart /\ reboot /\ pc = "rebooted"

\* C1: the bootloader rejects an image that was written, checked and read
\* back, in a session that was to reboot.
C1_Witness ==
    /\ kind = "OTA" /\ reboot /\ verify /\ Len(input) > BlockSize
    /\ exc.kind = "ota_validate_failed" /\ boot = RunningPart

\* C2: OTA.__init__ looks up the next-update partition, then marks the
\* running image valid, then constructs the writer, and a step that fails
\* ends it: with no partition there is the lookup and nothing else (no
\* mark-valid call, no buffer, no device call); with a bootloader that is
\* not OTA capable there is no writer, no buffer and no device call; and
\* every device call follows a mark-valid call that succeeded.
C2_OpenOrder ==
    kind = "OTA" =>
        /\ log # << >> /\ log[1][1] = "get_next_update"
        /\ ~has_next =>
              /\ pc = "failed" /\ exc.kind = "ENOENT" /\ mv = << >>
              /\ log = <<Ev("get_next_update", -1, -1, -1)>>
        /\ has_next /\ ~ota_capable =>
              /\ pc = "failed" /\ exc.kind = "OTA_UNSUPPORTED" /\ mv = << >>
              /\ \A i \in 1..Len(log) : log[i][1] \notin DeviceOps
              /\ log[Len(log)][1] = "mark_app_valid"
        /\ mv # << >> => has_next /\ ota_capable
        /\ \A i \in 1..Len(log) :
              log[i][1] \in DeviceOps =>
                  /\ has_next /\ ota_capable
                  /\ \E j \in 1..(i - 1) :
                        /\ log[j][1] = "mark_app_valid"
                        /\ \E g \in 1..(j - 1) : log[g][1] = "get_next_update"

\* C2: the bootloader is not OTA capable and the open has failed.
C2_Witness ==
    /\ kind = "OTA" /\ has_next /\ ~ota_capable
    /\ pc = "failed" /\ exc.kind = "OTA_UNSUPPORTED"

\* a is the beginning of b
IsPrefix(a, b) == Len(a) <= Len(b) /\ SubSeq(b, 1, Len(a)) = a

\* The writes and erases the device has seen, in order
IsDevWrite(e) == e[1] \in {"writeblocks", "erase"}
DevWrites == SelectSeq(log, IsDevWrite)
\* q whole-block writes at blocks 0 .. q-1
FullWrites(q) == [j \in 1..q |-> Ev("writeblocks", j - 1, BlockSize, -1)]
\* the erase and the partial write of r bytes at block q, when r > 0
TailWrite(q, r) ==
    IF r > 0 THEN <<Ev("erase", q, -1, -1), Ev("writeblocks", q, r, 0)>>
    ELSE << >>
\* A write of less than a block has succeeded
PartialDone ==
    \E i \in 1..Len(log) :
        log[i][1] = "writeblocks" /\ log[i][3] \in 1..(BlockSize - 1)
\* The expected length is given and is not the length of the payload
LengthWrong == length # 0 /\ length # Len(input)
\* The expected digest is given and is not the digest of the payload
DigestWrong == sha_check # << >> /\ sha_check # HexDigest(input)

\* C3: on a BufferedBlockdev whose buffer is one block, every sequence of
\* write calls of any sizes (empty ones, ones larger than the buffer)
\* totalling no more than the device holds raises nothing, each call
\* returns the length of its data, what reached the device followed by what
\* is in the buffer is the concatenation of the data, and after the final
\* flush the device holds, from block 0 on, exactly that concatenation.
C3_ChunkingInvariance ==
    kind = "BufferedBlockdev" /\ pc = "open" /\ Len(mv) = BlockSize
            /\ ~resumed =>
        /\ exc.kind = "none"
        /\ last = "write" => ret = arglen
        /\ bufp < BlockSize
        /\ written \o SubSeq(mv, 1, bufp) = input
        /\ last = "flush" =>
              /\ bufp = 0 /\ written = input
              /\ SubSeq(flash, 1, Len(input)) = input

\* C3: two blocks and a byte are on the device after the final flush, the
\* last call before it a write of more than the buffer holds.
C3_Witness ==
    /\ kind = "BufferedBlockdev" /\ Len(mv) = BlockSize /\ ~resumed
    /\ last = "flush" /\ Len(input) = 2 * BlockSize + 1
    /\ arglen = BlockSize + 1 /\ ret = arglen

\* C4: the bytes fed to the running digest are always exactly the bytes
\* written to the device so far, which are the beginning of the payload;
\* once closed they are the whole payload, so the digest close finalizes
\* depends on the payload alone and not on how it was chunked.
C4_DigestFedByFlush ==
    Session =>
        /\ sha = written
        /\ IsPrefix(written, input)
        /\ Closed => written = input /\ wsha = HexDigest(input)

\* C4: a closed session whose payload was more than a block and not whole
\* blocks, part of it still buffered when close was called.
C4_Witness ==
    /\ Session /\ pc = "closed_ok" /\ last = "close"
    /\ Len(input) > BlockSize /\ Len(input) % BlockSize # 0
    /\ sha = input /\ wsha = HexDigest(input)

\* C5: for a payload of q blocks and r bytes, in any chunking, the device
\* sees while the session is open the whole-block writes at blocks 0, 1, ...
\* in order and no erase, and once closed exactly q whole-block writes
\* followed, if and only if r > 0, by the erase of block q and then the
\* write of r bytes at offset 0 of block q; close returns the length of
\* the payload.
C5_DeviceOperationPattern ==
    Session =>
        LET q == Len(input) \div BlockSize
            r == Len(input) % BlockSize
        IN /\ ~Closed => DevWrites = FullWrites(q)
           /\ Closed => DevWrites = FullWrites(q) \o TailWrite(q, r)
           /\ pc = "closed_ok" =>
                 closeRet # << >> /\ closeRet[1] = Len(input)

\* C5: two whole-block writes, an erase and a partial write, as in
\* scenario A.
C5_Witness ==
    /\ Session /\ pc = "closed_ok"
    /\ Len(input) = 2 * BlockSize + 1
    /\ Len(DevWrites) = 4 /\ closeRet[1] = 2 * BlockSize + 1

\* C6: a Blockdev.write of more than a block that is not whole blocks is
\* rejected with an alignment error; once a write of less than a block has
\* succeeded every later write is rejected with the alignment error naming
\* the block; a write that is rejected makes no device call and leaves the
\* position and the high-water mark as they were.
C6_AlignmentEnforcement ==
    [][ncalls' = ncalls + 1 =>
          /\ arglen' > BlockSize /\ arglen' % BlockSize # 0 =>
                exc'.kind \in AlignmentErrors
          /\ PartialDone =>
                exc' = Exc("write_not_aligned", pos \div BlockSize)
          /\ exc'.kind # "none" =>
                /\ exc'.kind \in AlignmentErrors
                /\ UNCHANGED <<pos, end, flash, log, written>>
          /\ exc'.kind = "none" => pos' = pos + arglen' /\ end' = pos'
      ]_vars

\* C6: a write made after a partial write has been rejected.
C6_Witness ==
    /\ kind = "Blockdev" /\ PartialDone /\ ncalls >= 2
    /\ exc = Exc("write_not_aligned", pos \div BlockSize)

\* C7 as stated, for every expected length from 0 on: a payload of another
\* length fails close with the length mismatch.
C7_AsStated ==
    Session /\ Closed /\ length # Len(input) =>
        /\ exc.kind = "length_mismatch"
        /\ boot = RunningPart /\ ~Logged("set_boot")

\* C7: for every expected length from 1 to the capacity, a payload of
\* another length fails close with the length mismatch, close returns
\* nothing and the boot partition is not set; an expected length of 0 is
\* "not given" and never fails close on the length.
C7_LengthGating ==
    Session /\ Closed =>
        /\ length # 0 /\ length # Len(input) =>
              /\ pc = "closed_err" /\ exc.kind = "length_mismatch"
              /\ closeRet = << >>
              /\ boot = RunningPart /\ ~Logged("set_boot")
        /\ length = 0 => exc.kind # "length_mismatch"

\* C7: scenario B, a payload one byte short of the expected length.
C7_Witness ==
    /\ kind = "OTA" /\ Closed /\ length = BlockSize + 1
    /\ Len(input) = BlockSize /\ exc.kind = "length_mismatch"

\* C8: close flushes and finalizes the digest before any check, checks the
\* length before the digest and the digest before reading back: a digest
\* that differs fails close with the digest mismatch when the length
\* matched, with no read of the device made and the boot partition not
\* set; when both differ the error is the length mismatch.
C8_DigestGatingOrder ==
    Session /\ Closed =>
        /\ written = input /\ wsha = HexDigest(input)
        /\ LengthWrong => exc.kind = "length_mismatch"
        /\ ~LengthWrong /\ DigestWrong => exc.kind = "sha_mismatch"
        /\ exc.kind = "sha_mismatch" => ~LengthWrong /\ DigestWrong
        /\ exc.kind \in {"length_mismatch", "sha_mismatch"} =>
              /\ ~Logged("readblocks") /\ ~Logged("set_boot")
              /\ boot = RunningPart /\ rsha = << >>
        /\ Logged("readblocks") => verify /\ ~LengthWrong /\ ~DigestWrong

\* C8: scenario C, the length as expected, the digest not, verify on.
C8_Witness ==
    /\ kind = "OTA" /\ verify /\ length # 0 /\ length = Len(input)
    /\ exc.kind = "sha_mismatch"

\* C9: with verify on and the length and the digest as expected, a device
\* that returns what was written gives the read-back digest equal to the
\* written one and the writer's close succeeds; a device that returns any
\* of the bytes written changed fails close with the verify failure, which
\* is not the digest mismatch, and the boot partition is not set.
C9_RoundTripVerify ==
    Session /\ Closed /\ verify /\ ~LengthWrong /\ ~DigestWrong =>
        /\ misread \notin 1..Len(input) =>
              /\ rsha = wsha /\ wsha = HexDigest(input)
              /\ exc.kind \in {"none", "ota_validate_failed",
                               "KeyboardInterrupt"}
              /\ kind = "BlockDevWriter" =>
                    pc = "closed_ok" /\ closeRet = <<Len(input), wsha>>
              /\ kind = "OTA" => Logged("set_boot")
        /\ misread \in 1..Len(input) =>
              /\ exc.kind = "sha_verify_failed" /\ exc.kind # "sha_mismatch"
              /\ rsha # wsha /\ closeRet = << >>
              /\ boot = RunningPart /\ ~Logged("set_boot")

\* C9: the last byte of a payload that ends inside a block is read back
\* changed.
C9_Witness ==
    /\ Session /\ verify /\ exc.kind = "sha_verify_failed"
    /\ Len(input) > BlockSize /\ Len(input) % BlockSize # 0
    /\ misread = Len(input)

\* C10: __exit__ with no exception pending runs close: the tail is flushed,
\* the digest finalized, the checks made and, for OTA, the boot partition
\* set when the writer's close succeeded.  __exit__ with an exception
\* pending does none of it: the tail stays in the buffer, nothing is
\* erased, read back, checked or returned, set_boot is not called and the
\* exception goes on to the caller.
C10_ScopedClose ==
    Session /\ last = "__exit__" =>
        /\ e_t = "None" =>
              /\ Closed /\ bufp = 0 /\ written = input
              /\ wsha = HexDigest(input)
              /\ LengthWrong => exc.kind = "length_mismatch"
              /\ kind = "OTA" /\ exc.kind \notin {"length_mismatch",
                      "sha_mismatch", "sha_verify_failed"} =>
                    Logged("set_boot")
              /\ kind = "OTA" /\ exc.kind = "none" => boot = NextPart
        /\ e_t # "None" =>
              /\ pc = "abandoned" /\ exc.kind = e_t
              /\ bufp = Len(input) % BlockSize
              /\ Len(written) = Len(input) - bufp
              /\ wsha = << >> /\ rsha = << >> /\ closeRet = << >>
              /\ ~Logged("erase") /\ ~Logged("readblocks")
              /\ ~Logged("set_boot") /\ ~Logged("reset")
              /\ boot = RunningPart

\* C10: an OTA scope left on an exception with a block on the device and a
\* tail in the buffer.
C10_Witness ==
    /\ kind = "OTA" /\ last = "__exit__" /\ e_t = "Error"
    /\ bufp > 0 /\ written # << >>

\* The OTA objects that are open
OpenSessions == {c \in Ctls : ctl[c].st = "open"}

\* C11: at most one OTA object is open on the next-update partition at any
\* time within a boot.
C11_AtMostOneOpenSession == Cardinality(OpenSessions) <= 1

\* The subtypes of the OTA partitions configured
OtaSubtypes ==
    {table[i] : i \in 1..Len(table)} \cap (OTA_MIN..(OTA_MAX - 1))
\* The greatest of a set of subtypes
Greatest(S) == CHOOSE x \in S : \A y \in S : y <= x
\* The OTA partition before the running one in subtype order, the last one
\* when the running one is the first
CyclicPredecessor ==
    LET lower == {x \in OtaSubtypes : x < current}
    IN IF lower # {} THEN Greatest(lower) ELSE Greatest(OtaSubtypes)
\* The set_boot calls made, in order
IsSetBoot(e) == e[1] = "set_boot"
SetBootCalls == SelectSeq(log, IsSetBoot)

\* C12: when the running partition is one of the OTA partitions,
\* force_rollback calls set_boot once, on the OTA partition that precedes
\* the running one in subtype order, or on the last one when the running
\* one is the first, and on no other; that partition boots next unless the
\* bootloader rejects its image.
C12_CyclicPredecessor ==
    kind = "force_rollback" /\ current \in OtaSubtypes =>
        /\ SetBootCalls = <<Ev("set_boot", CyclicPredecessor, -1, -1)>>
        /\ exc.kind # "OTA_UNSUPPORTED"
        /\ exc.kind # "ota_validate_failed" => boot_ota = CyclicPredecessor
        /\ exc.kind = "ota_validate_failed" => boot_ota = current

\* C12: scenario E, three OTA partitions found out of order, the first one
\* running: the last one is set to boot.
C12_Witness ==
    /\ kind = "force_rollback" /\ Cardinality(OtaSubtypes) = 3
    /\ current = OTA_MIN /\ boot_ota = OTA_MIN + 2
    /\ Len(table) >= 3 /\ table[1] > table[2]

\* C13: when there is no OTA partition other than the running one,
\* force_rollback raises and calls set_boot on no partition.
C13_NoAlternateFails ==
    kind = "force_rollback" /\ OtaSubtypes \ {current} = {} =>
        /\ exc.kind = "OTA_UNSUPPORTED"
        /\ SetBootCalls = << >>

\* C14: write_file returns the number of bytes it took from the source,
\* whatever the fill of the buffer when it was called.
C14_WriteFileReturnsCount ==
    kind = "BufferedBlockdev" /\ last = "write_file" /\ exc.kind = "none"
            /\ ~resumed /\ Len(mv) = BlockSize =>
        ret = arglen

\* C15: a BufferedBlockdev.write that raises an alignment error leaves the
\* buffer and its fill count, the digest, the position and the high-water
\* mark as they were before the call.
C15_FailedWriteChangesNothing ==
    [][last' = "write" /\ exc'.kind \in AlignmentErrors =>
          UNCHANGED <<mv, bufp, sha, pos, end>>]_vars

\* C17: the fill count is never above the size of the buffer, and a write
\* or write_file that returns normally leaves it below the size of the
\* buffer: a full buffer is never left unflushed between calls.
C17_BufferNeverLeftFull ==
    kind = "BufferedBlockdev" /\ pc = "open" =>
        /\ 0 <= bufp /\ bufp <= Len(mv)
        /\ last \in {"write", "write_file"} /\ exc.kind = "none" =>
              bufp < Len(mv)

\* C16: the high-water mark equals the position after every call that
\* wrote to the device (close excepted, which seeks to 0 after its write),
\* and it never decreases from one state to the next, whatever is called,
\* calls made after a close included.
C16_CursorInvariants ==
    [][/\ written' # written /\ last' # "close" => end' = pos'
       /\ end' >= end]_vars

\* C18: the flush made by close on an empty buffer does nothing: no device
\* write or erase, the digest and the high-water mark as they were.  So
\* with a payload that is a positive number of whole buffers, the device
\* has seen just the whole-block writes made inside write, every byte was
\* written and fed to the digest once, and close reports the digest and the
\* length of the payload, as it does for any other payload.
C18_EmptyFlushIsNoOp ==
    [][/\ pc = "open" /\ Session /\ bufp = 0 /\ Closed' =>
             /\ written' = written /\ sha' = sha /\ end' = end
             /\ DevWrites' = DevWrites
       /\ Session' /\ Closed' /\ Len(input') > 0
                /\ Len(input') % BlockSize = 0 =>
             /\ DevWrites' = FullWrites(Len(input') \div BlockSize)
             /\ written' = input' /\ sha' = input'
             /\ wsha' = HexDigest(input')
             /\ pc' = "closed_ok" =>
                   closeRet' = <<Len(input'), HexDigest(input')>>
      ]_vars

\* C18: a payload of two whole buffers is closed; the device has seen two
\* writes.
C18_Witness ==
    /\ Session /\ pc = "closed_ok" /\ last = "close"
    /\ Len(input) = 2 * BlockSize /\ Len(DevWrites) = 2
    /\ closeRet = <<2 * BlockSize, HexDigest(input)>>

\* The reads the device has seen, in order
IsRead(e) == e[1] = "readblocks"
Reads == SelectSeq(log, IsRead)
\* q whole-block reads at blocks 0 .. q-1
FullReads(q) == [j \in 1..q |-> Ev("readblocks", j - 1, BlockSize, -1)]
\* the read of r bytes at offset 0 of block q, when r > 0
TailRead(q, r) ==
    IF r > 0 THEN <<Ev("readblocks", q, r, 0)>> ELSE << >>

\* C19: verify reads the L bytes written from the start, in ceil(L / B)
\* reads, each of a block but for a last one of L mod B bytes when that is
\* not 0, and nothing at or past offset L; no read is made before close,
\* with verify off, or when the length or the digest check fails.  After a
\* close of the writer that succeeded, verify on or off, the position is 0
\* and the high-water mark is L.
C19_ReadBackShape ==
    Session =>
        LET q == Len(input) \div BlockSize
            r == Len(input) % BlockSize
            checked == verify /\ ~LengthWrong /\ ~DigestWrong
        IN /\ Closed /\ checked => Reads = FullReads(q) \o TailRead(q, r)
           /\ ~(Closed /\ checked) => Reads = << >>
           /\ \A i \in 1..Len(Reads) :
                 Reads[i][2] * BlockSize + Reads[i][3] <= Len(input)
           /\ Closed /\ exc.kind \notin {"length_mismatch", "sha_mismatch",
                                         "sha_verify_failed"} =>
                 pos = 0 /\ end = Len(input)

\* C19: two blocks and a byte are read back in three reads.
C19_Witness ==
    /\ Session /\ pc = "closed_ok" /\ verify
    /\ Len(input) = 2 * BlockSize + 1 /\ Len(Reads) = 3
    /\ pos = 0 /\ end = 2 * BlockSize + 1

\* C20: a BufferedBlockdev is constructed only with a buffer of one or more
\* whole blocks, and whatever that size and the chunking of the payload,
\* the final flush delivers what the buffer holds and empties it, so that
\* the whole payload is on the device.
C20_AnyBufferMultipleFlushes ==
    kind = "BufferedBlockdev" /\ pc = "open" =>
        /\ Len(mv) >= BlockSize /\ Len(mv) % BlockSize = 0
        /\ ~resumed /\ last = "flush" =>
              /\ exc.kind = "none" /\ bufp = 0
              /\ written = input
              /\ SubSeq(flash, 1, Len(input)) = input

====
